---- MODULE Spec2Model ----
(***************************************************************************)
(* Recording analysis pipeline of crescendai-web.                          *)
(*                                                                         *)
(* The module models the two tables the pipeline writes (recordings and    *)
(* recording_results), the handlers that touch them (lib/piano-analysis.ts,*)
(* lib/db/actions.ts, the analyze API route) and the encoding of the       *)
(* analysis verdict (JSON.stringify, Buffer base64) as the code computes   *)
(* it.  Every handler is asynchronous: a task advances from one await to   *)
(* the next in one step, and tasks interleave between awaits.              *)
(*                                                                         *)
(* lib/db/schema is not part of the sources at hand: recordings.resultId   *)
(* is taken to be an enforced foreign key to recording_results.            *)
(*                                                                         *)
(* The feedback view (RecordingDetailsClient and its Timeline) is the      *)
(* second part: the items made of an analysis result, the category filter  *)
(* and the markers of the Timeline, with scores as IEEE 754 doubles.       *)
(***************************************************************************)
EXTENDS Integers, Sequences, FiniteSets, Bags, TLC

(***************************************************************************)
(* Bounds of the model.                                                    *)
(***************************************************************************)
\* invocations of the dispatcher (or of a retry) in flight at once
NumTasks == 1
\* recordings ever created
MaxRecordings == 1
\* result rows ever inserted
MaxResults == 1

RecordingIds == 1..MaxRecordings
ResultIds == 1..MaxResults

\* ids a caller may name: an id has no row before the serial gives it out
\* and after its recording is deleted
RequestIds == RecordingIds

NULL == 0

(***************************************************************************)
(* Characters are code points; a string is a sequence of code points.      *)
(***************************************************************************)
Quote == 34
Backslash == 92
Space == 32
Comma == 44
Colon == 58
LBrace == 123
RBrace == 125
LBracket == 91
RBracket == 93
Newline == 10
LetterN == 110
Digit0 == 48
ReplacementChar == 65533

TrueText == <<116, 114, 117, 101>>
FalseText == <<102, 97, 108, 115, 101>>
NullText == <<110, 117, 108, 108>>

\* JSON values as JavaScript holds them after JSON.parse
JLit(x) == [t |-> "lit", v |-> x]
JNum(n) == [t |-> "num", v |-> n]
JStr(s) == [t |-> "str", v |-> s]
JArr(a) == [t |-> "arr", v |-> a]
JObj(m) == [t |-> "obj", v |-> m]
SyntaxError == [t |-> "SyntaxError", v |-> <<>>]

RECURSIVE Concat(_)
Concat(ss) == IF ss = <<>> THEN <<>> ELSE Head(ss) \o Concat(Tail(ss))

RECURSIVE NatDigits(_)
NatDigits(n) ==
  IF n < 10 THEN <<Digit0 + n>> ELSE NatDigits(n \div 10) \o <<Digit0 + (n % 10)>>

QuoteChar(c) ==
  IF c = Quote THEN <<Backslash, Quote>>
  ELSE IF c = Backslash THEN <<Backslash, Backslash>>
  ELSE IF c = Newline THEN <<Backslash, LetterN>>
  ELSE <<c>>

QuoteJSONString(s) ==
  <<Quote>> \o Concat([i \in 1..Len(s) |-> QuoteChar(s[i])]) \o <<Quote>>

RECURSIVE JoinComma(_)
JoinComma(ss) ==
  IF ss = <<>> THEN <<>>
  ELSE IF Len(ss) = 1 THEN ss[1]
  ELSE ss[1] \o <<Comma>> \o JoinComma(Tail(ss))

RECURSIVE JSONStringify(_)
JSONStringify(val) ==
  CASE val.t = "lit" ->
         (IF val.v = "true" THEN TrueText
          ELSE IF val.v = "false" THEN FalseText ELSE NullText)
    [] val.t = "num" -> NatDigits(val.v)
    [] val.t = "str" -> QuoteJSONString(val.v)
    [] val.t = "arr" ->
         <<LBracket>>
         \o JoinComma([i \in 1..Len(val.v) |-> JSONStringify(val.v[i])])
         \o <<RBracket>>
    [] val.t = "obj" ->
         <<LBrace>>
         \o JoinComma([i \in 1..Len(val.v) |->
               QuoteJSONString(val.v[i][1]) \o <<Colon>> \o JSONStringify(val.v[i][2])])
         \o <<RBrace>>

(***************************************************************************)
(* Buffer.from(string) encodes UTF-8, toString('base64') encodes base64;   *)
(* Buffer.from(text, 'base64') and toString('utf-8') go back.              *)
(* A base64 text is a sequence of alphabet indices 0..63, Pad for '='.     *)
(***************************************************************************)
Pad == 64

Utf8Char(c) ==
  IF c < 128 THEN <<c>> ELSE <<192 + (c \div 64), 128 + (c % 64)>>

\* Buffer.from(string, 'latin1'): one byte for each character
BufferFromLatin1(s) == [i \in 1..Len(s) |-> s[i] % 256]

\* Buffer.from(string): the UTF-8 bytes of the string
BufferFrom(s) == Concat([i \in 1..Len(s) |-> Utf8Char(s[i])])

RECURSIVE ToBase64(_)
ToBase64(b) ==
  IF Len(b) = 0 THEN <<>>
  ELSE IF Len(b) = 1 THEN
    <<b[1] \div 4, (b[1] % 4) * 16, Pad, Pad>>
  ELSE IF Len(b) = 2 THEN
    <<b[1] \div 4, (b[1] % 4) * 16 + (b[2] \div 16), (b[2] % 16) * 4, Pad>>
  ELSE
    <<b[1] \div 4, (b[1] % 4) * 16 + (b[2] \div 16),
      (b[2] % 16) * 4 + (b[3] \div 64), b[3] % 64>>
    \o ToBase64(SubSeq(b, 4, Len(b)))

RECURSIVE FromBase64(_)
FromBase64(c) ==
  IF Len(c) < 2 \/ c[1] = Pad \/ c[2] = Pad THEN <<>>
  ELSE IF Len(c) = 2 \/ c[3] = Pad THEN
    <<c[1] * 4 + (c[2] \div 16)>>
  ELSE IF Len(c) = 3 \/ c[4] = Pad THEN
    <<c[1] * 4 + (c[2] \div 16), (c[2] % 16) * 16 + (c[3] \div 4)>>
  ELSE
    <<c[1] * 4 + (c[2] \div 16), (c[2] % 16) * 16 + (c[3] \div 4),
      (c[3] % 4) * 64 + c[4]>>
    \o FromBase64(SubSeq(c, 5, Len(c)))

RECURSIVE ToUtf8String(_)
ToUtf8String(b) ==
  IF Len(b) = 0 THEN <<>>
  ELSE IF b[1] < 128 THEN <<b[1]>> \o ToUtf8String(Tail(b))
  ELSE IF b[1] >= 192 /\ b[1] < 224 /\ Len(b) >= 2 /\ b[2] >= 128 /\ b[2] < 192
    THEN <<(b[1] - 192) * 64 + (b[2] - 128)>> \o ToUtf8String(SubSeq(b, 3, Len(b)))
  ELSE <<ReplacementChar>> \o ToUtf8String(Tail(b))

(***************************************************************************)
(* JSON.parse: recursive descent over the text.  A parse step returns      *)
(* [ok, v, i]: whether a value was read, the value, and the index after it.*)
(***************************************************************************)
RECURSIVE SkipWs(_, _)
SkipWs(s, i) ==
  IF i <= Len(s) /\ (s[i] = Space \/ s[i] = Newline) THEN SkipWs(s, i + 1) ELSE i

ParseFail == [ok |-> FALSE, v |-> SyntaxError, i |-> 0]

StartsWith(s, i, w) ==
  /\ i + Len(w) - 1 <= Len(s)
  /\ SubSeq(s, i, i + Len(w) - 1) = w

IsDigit(c) == c >= Digit0 /\ c <= Digit0 + 9

RECURSIVE ParseDigits(_, _, _)
ParseDigits(s, i, acc) ==
  IF i <= Len(s) /\ IsDigit(s[i])
    THEN ParseDigits(s, i + 1, acc * 10 + (s[i] - Digit0))
    ELSE [ok |-> TRUE, v |-> JNum(acc), i |-> i]

\* a number: "0", or a nonzero digit followed by digits (no leading zero)
ParseNumber(s, i) ==
  IF s[i] = Digit0
    THEN [ok |-> TRUE, v |-> JNum(0), i |-> i + 1]
    ELSE ParseDigits(s, i, 0)

\* the characters of a string literal, from the index after the opening quote
RECURSIVE ParseChars(_, _, _)
ParseChars(s, i, acc) ==
  IF i > Len(s) THEN ParseFail
  ELSE IF s[i] = Quote THEN [ok |-> TRUE, v |-> JStr(acc), i |-> i + 1]
  ELSE IF s[i] = Newline THEN ParseFail
  ELSE IF s[i] = Backslash THEN
    IF i + 1 > Len(s) THEN ParseFail
    ELSE IF s[i + 1] = Quote THEN ParseChars(s, i + 2, Append(acc, Quote))
    ELSE IF s[i + 1] = Backslash THEN ParseChars(s, i + 2, Append(acc, Backslash))
    ELSE IF s[i + 1] = LetterN THEN ParseChars(s, i + 2, Append(acc, Newline))
    ELSE ParseFail
  ELSE ParseChars(s, i + 1, Append(acc, s[i]))

\* a repeated key keeps its first position and takes the last value
SetMember(m, k, val) ==
  IF \E j \in 1..Len(m) : m[j][1] = k
    THEN [j \in 1..Len(m) |-> IF m[j][1] = k THEN <<k, val>> ELSE m[j]]
    ELSE Append(m, <<k, val>>)

RECURSIVE ParseValue(_, _)
RECURSIVE ParseElements(_, _, _)
RECURSIVE ParseMembers(_, _, _)

\* elements of an array, from the index of the first element
ParseElements(s, i, acc) ==
  LET e == ParseValue(s, i) IN
  IF ~e.ok THEN ParseFail
  ELSE LET j == SkipWs(s, e.i) IN
    IF j > Len(s) THEN ParseFail
    ELSE IF s[j] = RBracket THEN [ok |-> TRUE, v |-> JArr(Append(acc, e.v)), i |-> j + 1]
    ELSE IF s[j] = Comma THEN ParseElements(s, j + 1, Append(acc, e.v))
    ELSE ParseFail

\* members of an object, from the index of the first key
ParseMembers(s, i, acc) ==
  LET k0 == SkipWs(s, i) IN
  IF k0 > Len(s) \/ s[k0] # Quote THEN ParseFail
  ELSE LET k == ParseChars(s, k0 + 1, <<>>) IN
    IF ~k.ok THEN ParseFail
    ELSE LET c == SkipWs(s, k.i) IN
      IF c > Len(s) \/ s[c] # Colon THEN ParseFail
      ELSE LET e == ParseValue(s, c + 1) IN
        IF ~e.ok THEN ParseFail
        ELSE LET j == SkipWs(s, e.i) IN
          IF j > Len(s) THEN ParseFail
          ELSE IF s[j] = RBrace
            THEN [ok |-> TRUE, v |-> JObj(SetMember(acc, k.v.v, e.v)), i |-> j + 1]
          ELSE IF s[j] = Comma
            THEN ParseMembers(s, j + 1, SetMember(acc, k.v.v, e.v))
          ELSE ParseFail

ParseValue(s, i0) ==
  LET i == SkipWs(s, i0) IN
  IF i > Len(s) THEN ParseFail
  ELSE IF StartsWith(s, i, TrueText) THEN [ok |-> TRUE, v |-> JLit("true"), i |-> i + 4]
  ELSE IF StartsWith(s, i, FalseText) THEN [ok |-> TRUE, v |-> JLit("false"), i |-> i + 5]
  ELSE IF StartsWith(s, i, NullText) THEN [ok |-> TRUE, v |-> JLit("null"), i |-> i + 4]
  ELSE IF IsDigit(s[i]) THEN ParseNumber(s, i)
  ELSE IF s[i] = Quote THEN ParseChars(s, i + 1, <<>>)
  ELSE IF s[i] = LBracket THEN
    (LET j == SkipWs(s, i + 1) IN
     IF j <= Len(s) /\ s[j] = RBracket
       THEN [ok |-> TRUE, v |-> JArr(<<>>), i |-> j + 1]
       ELSE ParseElements(s, i + 1, <<>>))
  ELSE IF s[i] = LBrace THEN
    (LET j == SkipWs(s, i + 1) IN
     IF j <= Len(s) /\ s[j] = RBrace
       THEN [ok |-> TRUE, v |-> JObj(<<>>), i |-> j + 1]
       ELSE ParseMembers(s, i + 1, <<>>))
  ELSE ParseFail

\* JSON.parse(text): the value, or SyntaxError (which JavaScript throws)
JSONParse(s) ==
  LET r == ParseValue(s, 1) IN
  IF r.ok /\ SkipWs(s, r.i) > Len(s) THEN r.v ELSE SyntaxError

(***************************************************************************)
(* What the outside world can answer.                                      *)
(***************************************************************************)
\* bodies the analysis service sends with a 2xx status: {"ok":true}, a
\* document with white space, a non-ASCII character, an escaped quote and a
\* repeated key, and a body that is not JSON
BodyOk == <<123, 34, 111, 107, 34, 58, 116, 114, 117, 101, 125>>
BodyRich ==
  <<123, 32, 34, 115, 34, 58, 32, 34, 233, 92, 34, 34, 44, 32, 34, 110, 34, 58,
    32, 91, 55, 48, 44, 32, 110, 117, 108, 108, 93, 44, 34, 115, 34, 58, 34, 233,
    92, 34, 34, 32, 125, 10>>
BodyHtml == <<60, 104, 116, 109, 108, 62>>
SuccessBodies == {BodyOk, BodyRich, BodyHtml}

\* non-2xx answers of the analysis service: status and body text
FailureStatuses == {500, 503}
FailureTexts == {"overloaded"}
\* statusText of a non-2xx answer to the audio download
DownloadStatusTexts == {"Not Found"}

AudioUrls == {"r2/a.mp3"}
NoUrl == "none"
LegacyUrl == "legacy/name.mp3"

\* the session of a request: none, or a user who is an admin of, a member
\* of, or a stranger to the organization that owns the recordings
Sessions == {"none", "admin", "member", "outsider"}
IsMember(sess) == sess \in {"admin", "member"}

States == {"queued", "processing", "processed"}

(***************************************************************************)
(* Values returned to callers.                                             *)
(***************************************************************************)
Err(m, st, tx) == [msg |-> m, status |-> st, text |-> tx]
NoError == Err("", 0, "")
NotFound == Err("Recording not found", 0, "")
AlreadyProcessed == Err("Recording already processed", 0, "")
DownloadError(statusText) == Err("Failed to download audio file", 0, statusText)
AnalysisServiceError(status, body) == Err("Analysis API failed", status, body)
FetchFailed == Err("fetch failed", 0, "")
JSONSyntaxError == Err("Unexpected token", 0, "")
DbError == Err("database error", 0, "")
ForeignKeyViolation == Err("violates foreign key constraint", 0, "")

NoRet == [set |-> FALSE, success |-> FALSE, resultId |-> NULL, error |-> NoError]
Success(id) == [set |-> TRUE, success |-> TRUE, resultId |-> id, error |-> NoError]
Failure(e) == [set |-> TRUE, success |-> FALSE, resultId |-> NULL, error |-> e]

NoStatus == [set |-> FALSE, found |-> FALSE, state |-> "", hasResult |-> FALSE]

(***************************************************************************)
(* Numbers of the feedback view.  A score is an IEEE 754 double; the view  *)
(* adds scores and divides a sum by a count.  A double in [0.5, 8) is kept *)
(* exactly, as <<hi, lo>> for (hi * Limb + lo) * 2^-53, and 0 as <<0, 0>>; *)
(* every score of the inputs below lies in [0.5, 1], so every sum and mean *)
(* the view computes is 0, NaN, or in that range.                          *)
(***************************************************************************)
Limb == 2^26

NaN == <<-1, 0>>

\* the doubles nearest to the decimal literals of the inputs
Double ==
  [s \in {"0", "0.5", "0.7", "0.8", "0.9", "1.0"} |->
     CASE s = "0"   -> <<0, 0>>
       [] s = "0.5" -> <<67108864, 0>>
       [] s = "0.7" -> <<93952409, 40265318>>
       [] s = "0.8" -> <<107374182, 26843546>>
       [] s = "0.9" -> <<120795955, 13421773>>
       [] s = "1.0" -> <<134217728, 0>>]

\* the two limbs after a carry out of the low one
Normal(hi, lo) == IF lo >= Limb THEN <<hi + 1, lo - Limb>> ELSE <<hi, lo>>

\* a + b, rounded to the nearest double, ties to the even significand
Plus(a, b) ==
  IF a = NaN \/ b = NaN THEN NaN
  ELSE
    LET s == Normal(a[1] + b[1], a[2] + b[2])
        ulp == IF s[1] < 2 * Limb THEN 1
               ELSE IF s[1] < 4 * Limb THEN 2
               ELSE IF s[1] < 8 * Limb THEN 4 ELSE 8
        r == s[2] % ulp
        down == s[2] - r
        up == IF 2 * r > ulp THEN TRUE
              ELSE IF 2 * r < ulp THEN FALSE
              ELSE (down \div ulp) % 2 = 1
    IN  Normal(s[1], IF up THEN down + ulp ELSE down)

\* s / n for a count n, rounded the same way; 0 / 0 is NaN
Divide(s, n) ==
  IF s = NaN \/ n = 0 THEN NaN
  ELSE
    LET qh == s[1] \div n
        t == (s[1] % n) * Limb + s[2]
        ql == t \div n
        r == t % n
        up == IF 2 * r > n THEN TRUE
              ELSE IF 2 * r < n THEN FALSE
              ELSE ql % 2 = 1
    IN  Normal(qh, IF up THEN ql + 1 ELSE ql)

\* a >= b; every comparison with NaN is false
GreaterEq(a, b) ==
  /\ a # NaN /\ b # NaN
  /\ a[1] > b[1] \/ (a[1] = b[1] /\ a[2] >= b[2])

\* values.reduce((sum, val) => sum + val, 0)
RECURSIVE Reduce(_, _)
Reduce(sum, values) ==
  IF values = <<>> THEN sum ELSE Reduce(Plus(sum, Head(values)), Tail(values))

(***************************************************************************)
(* Texts of the feedback view.  A timestamp is a sequence of characters;   *)
(* a dimension name and a score_reference text are taken by their pieces.  *)
(***************************************************************************)
\* Number(text) is not a number, and a sum with it
NotANumber == -1

\* text.split(sep)
RECURSIVE Split(_, _)
Split(text, sep) ==
  IF \A i \in 1..Len(text) : text[i] # sep THEN <<text>>
  ELSE
    LET i == CHOOSE k \in 1..Len(text) :
               text[k] = sep /\ \A j \in 1..(k - 1) : text[j] # sep
    IN  <<SubSeq(text, 1, i - 1)>> \o Split(SubSeq(text, i + 1, Len(text)), sep)

\* Number(text) of a text of decimal digits; Number("") is 0
RECURSIVE ToNumber(_)
ToNumber(text) ==
  LET digits == <<"0", "1", "2", "3", "4", "5", "6", "7", "8", "9">> IN
  IF text = <<>> THEN 0
  ELSE IF \A d \in 1..10 : digits[d] # text[Len(text)] THEN NotANumber
  ELSE
    LET front == ToNumber(SubSeq(text, 1, Len(text) - 1))
        last == CHOOSE d \in 0..9 : digits[d + 1] = text[Len(text)]
    IN  IF front = NotANumber THEN NotANumber ELSE front * 10 + last

\* the start of a range like "0:00-0:03" in seconds (lines 110-112)
StartSeconds(text) ==
  LET startTimeStr == Split(text, "-")[1]
      parts == Split(startTimeStr, ":")
      minutes == ToNumber(parts[1])
      seconds == IF Len(parts) >= 2 THEN ToNumber(parts[2]) ELSE NotANumber
  IN  IF minutes = NotANumber \/ seconds = NotANumber
        THEN NotANumber
        ELSE minutes * 60 + seconds

\* text.trim() of the pieces of the inputs
Trim(text) ==
  CASE text = " 1.0" -> "1.0"
    [] text = " 0.7" -> "0.7"
    [] text = " high" -> "high"
    [] OTHER -> text

\* parseFloat(text)
ParseFloat(text) == IF text \in DOMAIN Double THEN Double[text] ELSE NaN

\* the technical key of a dimension's display name, or the name in lower
\* case with its spaces replaced
formatDimensionKey(uiName) ==
  CASE uiName = "Tonal Brightness" -> "timbre_bright_dark"
    [] uiName = "Articulation Firmness" -> "articulation_soft_cushioned_hard_solid"
    [] uiName = "Dynamic Sophistication" -> "dynamic_sophisticated_mellow_raw_crude"
    [] uiName = "Pedal Saturation" -> "pedal_sparse_dry_saturated_wet"
    [] uiName = "Pedal Clarity" -> "pedal_clean_blurred"
    [] uiName = "Rhythmic Stability" -> "timing_stable_unstable"
    [] uiName = "Emotional Energy" -> "emotion_mood_low_energy_high_energy"
    [] uiName = "Musical Pacing" -> "music_making_fast_paced_slow_paced"
    [] uiName = "Timing Stable Unstable" -> "timing_stable_unstable"
    [] OTHER -> uiName

FEEDBACK_CATEGORIES ==
  [timing |-> {"timing_stable_unstable", "music_making_fast_paced_slow_paced"},
   dynamics |-> {"dynamic_sophisticated_mellow_raw_crude"},
   technique |-> {"articulation_soft_cushioned_hard_solid",
                  "pedal_sparse_dry_saturated_wet", "pedal_clean_blurred"},
   expression |-> {"emotion_mood_low_energy_high_energy"},
   timbre |-> {"timbre_bright_dark"}]

(***************************************************************************)
(* RecordingDetailsClient: feedbackMarkers and filteredMarkers.            *)
(***************************************************************************)
\* a severity with the threshold left out of the positive side
SeverityAbove(avgScore) ==
  IF GreaterEq(avgScore, Double["0.8"]) /\ avgScore # Double["0.8"]
    THEN "positive" ELSE "negative"

\* avgScore >= 0.8 ? "positive" : "negative"
Severity(avgScore) ==
  IF GreaterEq(avgScore, Double["0.8"]) THEN "positive" ELSE "negative"

\* the item made of one insight of a block (lines 116-151); a score_reference
\* is a text, by its pieces between colons, an object, by its entries in key
\* order, or absent
FeedbackItem(id, timestamp, insight) ==
  LET ref == insight.score_reference
      unread == [avgScore |-> Double["0.5"], dimension |-> "unknown", scoreReference |-> <<>>]
      read ==
        IF ref.type = "string" THEN
          IF Len(ref.parts) = 2
            THEN [avgScore |-> ParseFloat(Trim(ref.parts[2])),
                  dimension |-> Trim(ref.parts[1]),
                  scoreReference |-> <<<<Trim(ref.parts[1]), ParseFloat(Trim(ref.parts[2]))>>>>]
            ELSE unread
        ELSE IF ref.type = "object" THEN
          [avgScore |-> Divide(Reduce(Double["0"], [i \in 1..Len(ref.entries) |-> ref.entries[i][2]]),
                               Len(ref.entries)),
           dimension |-> IF ref.entries # <<>> THEN ref.entries[1][1] ELSE "unknown",
           scoreReference |-> ref.entries]
        ELSE unread
  IN  [id |-> id, timestamp |-> timestamp,
       dimension |-> formatDimensionKey(read.dimension),
       score |-> read.avgScore,
       feedbackText |-> insight.observation,
       severity |-> Severity(read.avgScore),
       score_reference |-> read.scoreReference]

\* the items of the blocks from block b on, numbered from idCounter
RECURSIVE ItemsFrom(_, _, _)
ItemsFrom(blocks, b, idCounter) ==
  IF b > Len(blocks) THEN <<>>
  ELSE
    LET tf == blocks[b]
        timestamp == StartSeconds(tf.timestamp)
    IN  [i \in 1..Len(tf.insights) |->
           FeedbackItem(idCounter + i - 1, timestamp, tf.insights[i])]
        \o ItemsFrom(blocks, b + 1, idCounter + Len(tf.insights))

\* a filter that keeps the items that are in every selected category
FilteredMarkersEvery(items, activeFilters) ==
  IF Len(activeFilters) > 0
    THEN LET keep(marker) ==
               \A f \in 1..Len(activeFilters) :
                  marker.dimension \in FEEDBACK_CATEGORIES[activeFilters[f]]
         IN  SelectSeq(items, keep)
    ELSE items

\* filteredMarkers (lines 159-166)
FilteredMarkers(items, activeFilters) ==
  IF Len(activeFilters) > 0
    THEN LET keep(marker) ==
               \E f \in 1..Len(activeFilters) :
                  marker.dimension \in FEEDBACK_CATEGORIES[activeFilters[f]]
         IN  SelectSeq(items, keep)
    ELSE items

(***************************************************************************)
(* Timeline: markerPositions and processedMarkers.                         *)
(***************************************************************************)
\* Array.from({ length: 15 }, (_, i) => (i + 1) * 2)
MarkerCount == 15
MarkerSpacing == 2
markerPositions == [i \in 1..MarkerCount |-> i * MarkerSpacing]

\* Math.abs(m.timestamp - timestamp) < 1.5, in half seconds
WindowHalves == 3
Near(m, timestamp) ==
  /\ m.timestamp # NotANumber
  /\ LET d == m.timestamp - timestamp IN
     2 * (IF d < 0 THEN -d ELSE d) < WindowHalves

\* processedMarkers that keeps a marker for every position of the grid
ProcessedMarkersOfAll(duration, markers) ==
  [i \in 1..MarkerCount |->
     LET feedbackAtTime == SelectSeq(markers, LAMBDA m : Near(m, markerPositions[i]))
         avgScore == Divide(Reduce(Double["0"],
                                   [j \in 1..Len(feedbackAtTime) |-> feedbackAtTime[j].score]),
                            Len(feedbackAtTime))
     IN  [timestamp |-> markerPositions[i], severity |-> Severity(avgScore),
          avgScore |-> avgScore, feedbackItems |-> feedbackAtTime]]

\* processedMarkers (lines 281-302) of the items the Timeline is given;
\* duration is a prop the grid does not read
ProcessedMarkers(duration, markers) ==
  LET marker(timestamp) ==
        LET feedbackAtTime == SelectSeq(markers, LAMBDA m : Near(m, timestamp))
            avgScore == Divide(Reduce(Double["0"],
                                      [i \in 1..Len(feedbackAtTime) |-> feedbackAtTime[i].score]),
                               Len(feedbackAtTime))
        IN  [timestamp |-> timestamp, severity |-> Severity(avgScore),
             avgScore |-> avgScore, feedbackItems |-> feedbackAtTime]
      all == [i \in 1..MarkerCount |-> marker(markerPositions[i])]
  IN  SelectSeq(all, LAMBDA pm : pm.feedbackItems # <<>>)

(***************************************************************************)
(* State.                                                                  *)
(***************************************************************************)
VARIABLES
  recordings,         \* table recordings: id -> row
  recordingResults,   \* table recording_results: id -> base64 text
  nextRecordingId,    \* serial of recordings.id
  nextResultId,       \* serial of recording_results.id
  inflight,           \* bag of the handler invocations between two awaits
  reply,              \* what the step just taken returned to its caller
  analysisResult,     \* prop of the feedback view: the decoded result
  duration,           \* prop of the feedback view: recording.duration
  activeFilters,      \* useState of the view: the selected categories
  feedbackMarkers,    \* useMemo of the view: the feedback items
  markers,            \* prop of the Timeline: filteredMarkers
  processedMarkers,   \* useMemo of the Timeline: the markers it shows
  firstRender         \* what the first render of the view showed, and
                      \* whether one, or more than one, render took place

db == <<recordings, recordingResults, nextRecordingId, nextResultId>>
view == <<analysisResult, duration, activeFilters, feedbackMarkers, markers,
          processedMarkers, firstRender>>
vars == <<recordings, recordingResults, nextRecordingId, nextResultId, inflight, reply,
          analysisResult, duration, activeFilters, feedbackMarkers, markers,
          processedMarkers, firstRender>>

\* the answer of the analysis service to a dispatch, when it has answered
NoResponse == [status |-> 0, text |-> "", body |-> <<>>]
\* response.ok
Ok(response) == response.status \in 200..299

\* the locals of an invocation for recording id; audioRequested records that
\* the download was requested, audioResponse what the storage answered and
\* analysisResponse what the analysis service answered
NewTask(id) ==
  [pc |-> "", recordingId |-> id, audioUrl |-> NoUrl, downloadUrl |-> NoUrl,
   audioRequested |-> FALSE, audioResponse |-> NoResponse,
   analysisRequested |-> FALSE, analysisResponse |-> NoResponse,
   newResultId |-> NULL, error |-> NoError]

\* a returned value: the handler, its recording, the value (or thrown when
\* an exception left the handler instead), and what the invocation did
NoReply ==
  [op |-> "", recordingId |-> NULL, ret |-> NoRet, thrown |-> FALSE,
   status |-> NoStatus, audioRequested |-> FALSE, audioResponse |-> NoResponse,
   analysisRequested |-> FALSE, analysisResponse |-> NoResponse,
   newResultId |-> NULL]

PipelineInit ==
  /\ recordings = <<>>
  /\ recordingResults = <<>>
  /\ nextRecordingId = 1
  /\ nextResultId = 1
  /\ inflight = EmptyBag
  /\ reply = NoReply

\* an analysis result without temporal_feedback
NoFeedback == [present |-> FALSE, temporal_feedback |-> <<>>]

\* nothing was rendered yet
Unmounted == [renders |-> 0, items |-> <<>>, markers |-> <<>>]

\* the view before it is mounted, for the analysis result ar and duration d
ViewInit(ar, d) ==
  /\ analysisResult = ar
  /\ duration = d
  /\ activeFilters = <<>>
  /\ feedbackMarkers = <<>>
  /\ markers = <<>>
  /\ processedMarkers = <<>>
  /\ firstRender = Unmounted

Init == PipelineInit /\ ViewInit(NoFeedback, 0)

Exists(id) == id \in DOMAIN recordings

\* db.update(recordings).set(...).where(eq(recordings.id, id)): no row, no write
UpdateRecording(id, row) ==
  IF Exists(id) THEN [recordings EXCEPT ![id] = row] ELSE recordings

\* db.insert(recordingResults).values({result}).returning()
InsertResult(text) == recordingResults @@ (nextResultId :> text)

InFlight == BagToSet(inflight)
Running == BagCardinality(inflight)

\* invocations that may still insert a recording_results row
MayInsert(tk) == tk.pc \in {"r_reset", "r_dispatch", "d_lookup", "d_start", "d_download", "d_post", "d_insert"}
PendingInserts ==
  LET pending == [tk \in {x \in InFlight : MayInsert(x)} |-> inflight[tk]] IN
  BagCardinality(pending)
\* the serial of recording_results stays within ResultIds
RoomForInsert == (nextResultId - 1) + PendingInserts + 1 <= MaxResults
\* one more invocation can be in flight
RoomForTask == Running < NumTasks

\* a returned value is with the caller before the next handler step runs
Quiet == reply = NoReply
\* a new invocation is in flight
Start(tk) ==
  /\ Quiet /\ RoomForTask /\ RoomForInsert
  /\ inflight' = inflight (+) SetToBag({tk})
  /\ reply' = NoReply
  /\ UNCHANGED view
\* an invocation moves from one await to the next
Step(tk, tk2) ==
  /\ Quiet
  /\ inflight' = (inflight (-) SetToBag({tk})) (+) SetToBag({tk2})
  /\ reply' = NoReply
  /\ UNCHANGED view
\* an invocation ends and r goes to its caller
Finish(tk, r) ==
  /\ Quiet
  /\ inflight' = inflight (-) SetToBag({tk})
  /\ reply' = r
  /\ UNCHANGED view
\* a handler that runs from its first to its last await in one step
Answer(r) == Quiet /\ inflight' = inflight /\ reply' = r /\ UNCHANGED view
\* the caller takes the returned value
Deliver == ~Quiet /\ reply' = NoReply /\ UNCHANGED <<db, inflight, view>>

(***************************************************************************)
(* processPianoAnalysis(recordingId, audioUrl): the dispatcher.            *)
(***************************************************************************)
\* processPianoAnalysis returns r to its caller, after what the invocation
\* did; an invocation that retryAnalysis ended with (line 274) returns r to
\* the caller of retryAnalysis
Return(tk, r) ==
  [NoReply EXCEPT !.op = "dispatch", !.recordingId = tk.recordingId, !.ret = r,
                  !.audioRequested = tk.audioRequested,
                  !.audioResponse = tk.audioResponse,
                  !.analysisRequested = tk.analysisRequested,
                  !.analysisResponse = tk.analysisResponse,
                  !.newResultId = tk.newResultId]

\* a call of processPianoAnalysis(recordingId, audioUrl)
Dispatch(tk, url) == [tk EXCEPT !.pc = "d_lookup", !.audioUrl = url]

\* the catch block is entered with error e
Catch(tk, e) ==
  [tk EXCEPT !.pc = "d_fail", !.error = e, !.audioUrl = NoUrl, !.downloadUrl = NoUrl]

\* a dispatcher without the check of line 26
DispatchLookupUnchecked(tk) ==
  /\ tk.pc \in {"d_lookup", "r_dispatch"}
  /\ Step(tk, [tk EXCEPT !.pc = "d_start"])
  /\ UNCHANGED db

\* 1. findFirst: an absent recording ends the dispatch before any write
DispatchLookup(tk) ==
  /\ tk.pc \in {"d_lookup", "r_dispatch"}
  /\ IF Exists(tk.recordingId)
       THEN Step(tk, [tk EXCEPT !.pc = "d_start"])
       ELSE Finish(tk, Return(tk, Failure(NotFound)))
  /\ UNCHANGED db

\* the download URL is the supplied one, or the one derived from the
\* recording's name
ResolveUrl(audioUrl) == IF audioUrl # NoUrl THEN audioUrl ELSE LegacyUrl

\* a start write that only a queued recording takes
DispatchStartExclusive(tk) ==
  /\ tk.pc = "d_start"
  /\ IF Exists(tk.recordingId) /\ recordings[tk.recordingId].state # "queued"
       THEN /\ Step(tk, Catch(tk, Err("InvalidTransition", 0, "")))
            /\ UNCHANGED recordings
       ELSE /\ recordings' =
                 UpdateRecording(tk.recordingId,
                   [recordings[tk.recordingId] EXCEPT !.state = "processing"])
            /\ Step(tk, [tk EXCEPT !.pc = "d_download", !.audioUrl = NoUrl,
                                   !.downloadUrl = ResolveUrl(tk.audioUrl)])
  /\ UNCHANGED <<recordingResults, nextRecordingId, nextResultId>>

\* state := 'processing', whatever the state was
DispatchStart(tk) ==
  /\ tk.pc = "d_start"
  /\ recordings' =
       UpdateRecording(tk.recordingId,
         [recordings[tk.recordingId] EXCEPT !.state = "processing"])
  /\ Step(tk, [tk EXCEPT !.pc = "d_download", !.audioUrl = NoUrl,
                         !.downloadUrl = ResolveUrl(tk.audioUrl)])
  /\ UNCHANGED <<recordingResults, nextRecordingId, nextResultId>>

\* the answers of the storage to the download
AudioOk == [NoResponse EXCEPT !.status = 200, !.text = "OK"]
AudioMissing(statusText) == [NoResponse EXCEPT !.status = 404, !.text = statusText]

\* a download that gives up by itself when the storage has not answered
DispatchDownloadTimeout(tk) ==
  /\ tk.pc = "d_download"
  /\ LET tk2 == [tk EXCEPT !.audioRequested = TRUE, !.downloadUrl = NoUrl] IN
     \/ Step(tk, [tk2 EXCEPT !.pc = "d_post", !.audioResponse = AudioOk])
     \/ \E st \in DownloadStatusTexts :
          Step(tk, Catch([tk2 EXCEPT !.audioResponse = AudioMissing(st)], DownloadError(st)))
     \/ Step(tk, Catch(tk2, FetchFailed))
     \/ Step(tk, Catch([tk EXCEPT !.downloadUrl = NoUrl], Err("The operation timed out", 0, "")))
  /\ UNCHANGED db

\* a download that goes on to the analysis whatever the storage answered
DispatchDownloadUnchecked(tk) ==
  /\ tk.pc = "d_download"
  /\ LET tk2 == [tk EXCEPT !.audioRequested = TRUE, !.downloadUrl = NoUrl] IN
     \/ Step(tk, [tk2 EXCEPT !.pc = "d_post", !.audioResponse = AudioOk])
     \/ \E st \in DownloadStatusTexts :
          Step(tk, [tk2 EXCEPT !.pc = "d_post", !.audioResponse = AudioMissing(st)])
     \/ Step(tk, Catch(tk2, FetchFailed))
  /\ UNCHANGED db

\* 3. fetch(downloadUrl): the bytes, a non-2xx answer, or a rejected fetch
DispatchDownload(tk) ==
  /\ tk.pc = "d_download"
  /\ LET tk2 == [tk EXCEPT !.audioRequested = TRUE, !.downloadUrl = NoUrl] IN
     \/ Step(tk, [tk2 EXCEPT !.pc = "d_post", !.audioResponse = AudioOk])
     \/ \E st \in DownloadStatusTexts :
          Step(tk, Catch([tk2 EXCEPT !.audioResponse = AudioMissing(st)], DownloadError(st)))
     \/ Step(tk, Catch(tk2, FetchFailed))
  /\ UNCHANGED db

\* response.json() of the body of a 2xx answer
AnalysisData == [body \in SuccessBodies |-> JSONParse(body)]

\* 5. POST to the analysis service, then response.json() of a 2xx answer
DispatchAnalyze(tk) ==
  /\ tk.pc = "d_post"
  /\ LET tk2 == [tk EXCEPT !.analysisRequested = TRUE] IN
     \/ \E body \in SuccessBodies :
          LET tk3 == [tk2 EXCEPT !.analysisResponse = [NoResponse EXCEPT !.status = 200,
                                                                         !.body = body]] IN
          IF AnalysisData[body] = SyntaxError
            THEN Step(tk, Catch(tk3, JSONSyntaxError))
            ELSE Step(tk, [tk3 EXCEPT !.pc = "d_insert"])
     \/ \E st \in FailureStatuses, tx \in FailureTexts :
          LET tk3 == [tk2 EXCEPT !.analysisResponse = [NoResponse EXCEPT !.status = st,
                                                                         !.text = tx]] IN
          Step(tk, Catch(tk3, AnalysisServiceError(st, tx)))
     \/ Step(tk, Catch(tk2, FetchFailed))
  /\ UNCHANGED db

\* 6. the text that is stored: base64 of the UTF-8 of JSON.stringify
EncodeResult(analysisData) == ToBase64(BufferFrom(JSONStringify(analysisData)))

\* base64Result of the analysisData of a 2xx answer
base64Result ==
  [body \in SuccessBodies |->
     IF AnalysisData[body] = SyntaxError THEN <<>> ELSE EncodeResult(AnalysisData[body])]

\* 7. insert the result row made from analysisData = response.json()
DispatchInsert(tk) ==
  /\ tk.pc = "d_insert"
  /\ recordingResults' = InsertResult(base64Result[tk.analysisResponse.body])
  /\ nextResultId' = nextResultId + 1
  /\ Step(tk, [tk EXCEPT !.pc = "d_complete", !.newResultId = nextResultId])
  /\ UNCHANGED <<recordings, nextRecordingId>>

\* recordings.result_id is a foreign key to recording_results: an update
\* that would make a row refer to a result that does not exist is rejected
RejectedByForeignKey(id, resultId) ==
  Exists(id) /\ resultId # NULL /\ resultId \notin DOMAIN recordingResults

\* a completing update that sets the state and leaves resultId out
DispatchCompleteStateOnly(tk) ==
  /\ tk.pc = "d_complete"
  /\ recordings' =
       UpdateRecording(tk.recordingId,
         [recordings[tk.recordingId] EXCEPT !.state = "processed"])
  /\ Finish(tk, Return(tk, Success(tk.newResultId)))
  /\ UNCHANGED <<recordingResults, nextRecordingId, nextResultId>>

\* 8. resultId and state 'processed' in one update, then the success value;
\* a rejected update throws into the catch block
DispatchComplete(tk) ==
  /\ tk.pc = "d_complete"
  /\ IF RejectedByForeignKey(tk.recordingId, tk.newResultId)
       THEN /\ Step(tk, Catch(tk, ForeignKeyViolation))
            /\ UNCHANGED recordings
       ELSE /\ recordings' =
                 UpdateRecording(tk.recordingId,
                   [recordings[tk.recordingId] EXCEPT
                      !.state = "processed", !.resultId = tk.newResultId])
            /\ Finish(tk, Return(tk, Success(tk.newResultId)))
  /\ UNCHANGED <<recordingResults, nextRecordingId, nextResultId>>

\* a catch block without the update of lines 123-128
DispatchFailNoReset(tk) ==
  /\ tk.pc = "d_fail"
  /\ Finish(tk, Return(tk, Failure(tk.error)))
  /\ UNCHANGED db

\* catch: state := 'queued', then the failure value with the error's message
DispatchFail(tk) ==
  /\ tk.pc = "d_fail"
  /\ recordings' =
       UpdateRecording(tk.recordingId,
         [recordings[tk.recordingId] EXCEPT !.state = "queued"])
  /\ Finish(tk, Return(tk, Failure(tk.error)))
  /\ UNCHANGED <<recordingResults, nextRecordingId, nextResultId>>

(***************************************************************************)
(* The callers of the dispatcher.                                          *)
(***************************************************************************)
\* a handler refuses the request before it calls the library: nothing is
\* written and no invocation is left in flight
Refuse == Quiet /\ inflight' = inflight /\ reply' = NoReply /\ UNCHANGED view

\* POST /api/recordings/[id]/analyze: session, recording, membership, then
\* processPianoAnalysis(recordingId, audioUrl, chunkDuration)
POST(sess, id, url) ==
  /\ IF sess = "none" THEN Refuse
     ELSE IF ~Exists(id) THEN Refuse
     ELSE IF ~IsMember(sess) THEN Refuse
     ELSE Start(Dispatch(NewTask(id), url))
  /\ UNCHANGED db

\* retryAnalysis returns r before it calls the dispatcher
RetryReturn(id, r) == [NoReply EXCEPT !.op = "retry", !.recordingId = id, !.ret = r]

\* retryAnalysis past its checks, before its write
RetryFrame(id) == [NewTask(id) EXCEPT !.pc = "r_reset"]

\* a retryAnalysis without the check of line 259
RetryLookupUnchecked(id) ==
  IF ~Exists(id) THEN Answer(RetryReturn(id, Failure(NotFound)))
  ELSE Start(RetryFrame(id))

\* retryAnalysis(recordingId), up to its first write: an absent or an already
\* processed recording ends the retry
RetryLookup(id) ==
  IF ~Exists(id) THEN Answer(RetryReturn(id, Failure(NotFound)))
  ELSE IF recordings[id].state = "processed"
    THEN Answer(RetryReturn(id, Failure(AlreadyProcessed)))
  ELSE Start(RetryFrame(id))

\* PUT /api/recordings/[id]/analyze: session, then retryAnalysis(recordingId)
PUT(sess, id) ==
  /\ IF sess = "none" THEN Refuse
     ELSE RetryLookup(id)
  /\ UNCHANGED db

\* the call of processPianoAnalysis(recordingId) that retryAnalysis returns
\* (line 274): a dispatch without an audio URL, at its first await
RetryDispatch(tk) == [Dispatch(tk, NoUrl) EXCEPT !.pc = "r_dispatch"]

\* a retryAnalysis without the update of lines 267-272
RetryResetNoWrite(tk) ==
  /\ tk.pc = "r_reset"
  /\ Step(tk, RetryDispatch(tk))
  /\ UNCHANGED db

\* retryAnalysis: state := 'queued', then "return processPianoAnalysis(
\* recordingId)": the invocation goes on as that dispatch, and what the
\* dispatch returns is what the retry returns
RetryReset(tk) ==
  /\ tk.pc = "r_reset"
  /\ recordings' =
       UpdateRecording(tk.recordingId,
         [recordings[tk.recordingId] EXCEPT !.state = "queued"])
  /\ Step(tk, RetryDispatch(tk))
  /\ UNCHANGED <<recordingResults, nextRecordingId, nextResultId>>

\* queueRecordingForAnalysis(recordingId, audioUrl): state := 'queued', then
\* processPianoAnalysis(recordingId, audioUrl) from setImmediate
QueueRecordingForAnalysis(id, url) ==
  /\ recordings' =
       UpdateRecording(id, [recordings[id] EXCEPT !.state = "queued"])
  /\ Start(Dispatch(NewTask(id), url))
  /\ UNCHANGED <<recordingResults, nextRecordingId, nextResultId>>

\* createRecordingAction: a member inserts a recording in state 'queued';
\* with an audio URL and shouldAnalyze the analysis is started, not awaited
CreateRecordingAction(sess, url, shouldAnalyze) ==
  /\ nextRecordingId <= MaxRecordings
  /\ IF sess = "none"
       THEN Refuse /\ UNCHANGED db
     ELSE IF ~IsMember(sess)
       THEN Refuse /\ UNCHANGED db
     ELSE
       /\ recordings' = recordings @@
            (nextRecordingId :> [state |-> "queued", resultId |-> NULL])
       /\ nextRecordingId' = nextRecordingId + 1
       /\ IF url # NoUrl /\ shouldAnalyze
            THEN Start(Dispatch(NewTask(nextRecordingId), url))
            ELSE Answer(NoReply)
       /\ UNCHANGED <<recordingResults, nextResultId>>

(***************************************************************************)
(* The other handlers that write the two tables.                           *)
(***************************************************************************)
\* the base64 text a caller of updateRecordingStateAction supplies
ClientResult == EncodeResult(JSONParse(BodyOk))

\* an update that writes the new result over the result the recording has
UpdateRecordingStateInPlace(sess, id, state, withResult) ==
  /\ sess # "none" /\ Exists(id) /\ IsMember(sess)
  /\ IF state = "processed" /\ withResult /\ recordings[id].resultId \in DOMAIN recordingResults
       THEN recordingResults' = [recordingResults EXCEPT ![recordings[id].resultId] = ClientResult]
       ELSE UNCHANGED recordingResults
  /\ recordings' = [recordings EXCEPT ![id].state = state]
  /\ Answer(NoReply)
  /\ UNCHANGED <<nextRecordingId, nextResultId>>

\* updateRecordingStateAction: session, recording, membership; with state
\* 'processed' and a result a result row is inserted; the update writes the
\* requested state and the new, or else the current, resultId
UpdateRecordingStateAction(sess, id, state, withResult) ==
  /\ withResult => RoomForInsert
  /\ IF sess = "none"
       THEN Refuse /\ UNCHANGED db
     ELSE IF ~Exists(id)
       THEN Refuse /\ UNCHANGED db
     ELSE IF ~IsMember(sess)
       THEN Refuse /\ UNCHANGED db
     ELSE
       /\ IF state = "processed" /\ withResult
            THEN /\ recordingResults' = InsertResult(ClientResult)
                 /\ nextResultId' = nextResultId + 1
                 /\ recordings' = [recordings EXCEPT ![id] =
                                     [state |-> state, resultId |-> nextResultId]]
            ELSE /\ UNCHANGED <<recordingResults, nextResultId>>
                 /\ recordings' = [recordings EXCEPT ![id].state = state]
       /\ Answer(NoReply)
       /\ UNCHANGED nextRecordingId

\* deleteRecordingAction: session, recording, admin role; the recording is
\* deleted, then the result it referred to
DeleteRecordingAction(sess, id) ==
  IF sess = "none"
    THEN Refuse /\ UNCHANGED db
  ELSE IF ~Exists(id)
    THEN Refuse /\ UNCHANGED db
  ELSE IF ~IsMember(sess)
    THEN Refuse /\ UNCHANGED db
  ELSE IF sess # "admin"
    THEN Refuse /\ UNCHANGED db
  ELSE
    /\ recordings' = [r \in DOMAIN recordings \ {id} |-> recordings[r]]
    /\ recordingResults' =
         [r \in DOMAIN recordingResults \ {recordings[id].resultId} |-> recordingResults[r]]
    /\ Answer(NoReply)
    /\ UNCHANGED <<nextRecordingId, nextResultId>>

\* a deleteRecordingResult without the update of lines 517-519
DeleteRecordingResultRowOnly(resultId) ==
  /\ recordingResults' =
       [r \in DOMAIN recordingResults \ {resultId} |-> recordingResults[r]]
  /\ Answer(NoReply)
  /\ UNCHANGED <<recordings, nextRecordingId, nextResultId>>

\* deleteRecordingResult(resultId): no recording refers to the result any
\* more, then the result row is deleted
DeleteRecordingResult(resultId) ==
  /\ recordings' =
       [id \in DOMAIN recordings |->
          IF recordings[id].resultId = resultId
            THEN [recordings[id] EXCEPT !.resultId = NULL] ELSE recordings[id]]
  /\ recordingResults' =
       [r \in DOMAIN recordingResults \ {resultId} |-> recordingResults[r]]
  /\ Answer(NoReply)
  /\ UNCHANGED <<nextRecordingId, nextResultId>>

(***************************************************************************)
(* Readers.                                                                *)
(***************************************************************************)
\* the result row joined by "with: { result: true }", if there is one
HasJoinedResult(id) == recordings[id].resultId \in DOMAIN recordingResults
JoinedResult(id) == recordingResults[recordings[id].resultId]

\* getAnalysisResult(recordingId): the decoded verdict, or SyntaxError where
\* the code returns null
getAnalysisResult(id) ==
  IF ~Exists(id) THEN SyntaxError
  ELSE IF ~HasJoinedResult(id) THEN SyntaxError
  ELSE JSONParse(ToUtf8String(FromBase64(JoinedResult(id))))

\* a status that takes hasResult from the state column
getAnalysisStatusByState(id) ==
  IF ~Exists(id) THEN [NoStatus EXCEPT !.set = TRUE]
  ELSE [set |-> TRUE, found |-> TRUE, state |-> recordings[id].state,
        hasResult |-> recordings[id].state = "processed"]

\* getAnalysisStatus(recordingId)
getAnalysisStatus(id) ==
  IF ~Exists(id) THEN [NoStatus EXCEPT !.set = TRUE]
  ELSE [set |-> TRUE, found |-> TRUE, state |-> recordings[id].state,
        hasResult |-> HasJoinedResult(id)]

\* GET /api/recordings/[id]/analyze: session, then getAnalysisStatus
GET(sess, id) ==
  /\ IF sess = "none" THEN Refuse
     ELSE LET st == getAnalysisStatus(id) IN
       IF ~st.found
         THEN Answer([NoReply EXCEPT !.op = "status", !.recordingId = id, !.status = st,
                                     !.ret = Failure(NotFound)])
         ELSE Answer([NoReply EXCEPT !.op = "status", !.recordingId = id,
                                     !.status = st, !.ret = Success(NULL)])
  /\ UNCHANGED db

(***************************************************************************)
(* The pipeline with a persistence layer that answers every call.          *)
(* An await that never returns is an invocation that takes no further step.*)
(***************************************************************************)
Urls == AudioUrls \cup {NoUrl}

Next ==
  \/ \E sess \in Sessions, id \in RequestIds, url \in Urls : POST(sess, id, url)
  \/ \E sess \in Sessions, id \in RequestIds : PUT(sess, id)
  \/ \E sess \in Sessions, id \in RequestIds : GET(sess, id)
  \/ \E id \in RequestIds, url \in AudioUrls : QueueRecordingForAnalysis(id, url)
  \/ \E sess \in Sessions, url \in Urls, an \in BOOLEAN : CreateRecordingAction(sess, url, an)
  \/ \E sess \in Sessions, id \in RequestIds, st \in States, wr \in BOOLEAN :
       UpdateRecordingStateAction(sess, id, st, wr)
  \/ \E sess \in Sessions, id \in RequestIds : DeleteRecordingAction(sess, id)
  \/ \E r \in ResultIds : DeleteRecordingResult(r)
  \/ \E tk \in InFlight : RetryReset(tk)
  \/ \E tk \in InFlight : DispatchLookup(tk)
  \/ \E tk \in InFlight : DispatchStart(tk)
  \/ \E tk \in InFlight : DispatchDownload(tk)
  \/ \E tk \in InFlight : DispatchAnalyze(tk)
  \/ \E tk \in InFlight : DispatchInsert(tk)
  \/ \E tk \in InFlight : DispatchComplete(tk)
  \/ \E tk \in InFlight : DispatchFail(tk)
  \/ Deliver

Spec == Init /\ [][Next]_vars

(***************************************************************************)
(* The pipeline with a persistence layer whose calls may throw.            *)
(***************************************************************************)
\* a persistence call inside the try block throws: findFirst, the write of
\* 'processing', the insert or the completing write
DbThrows(tk) ==
  /\ tk.pc \in {"d_lookup", "r_dispatch", "d_start", "d_insert", "d_complete"}
  /\ Step(tk, Catch(tk, DbError))
  /\ UNCHANGED db

\* the write of 'queued' in the catch block throws: nothing catches it and
\* the promise of processPianoAnalysis rejects
CatchThrows(tk) ==
  /\ tk.pc = "d_fail"
  /\ Finish(tk, [Return(tk, NoRet) EXCEPT !.thrown = TRUE])
  /\ UNCHANGED db

NextFault ==
  \/ Next
  \/ \E tk \in InFlight : DbThrows(tk)
  \/ \E tk \in InFlight : CatchThrows(tk)

SpecFault == Init /\ [][NextFault]_vars

(***************************************************************************)
(* Two dispatches of one recording at once: the analyze route was called   *)
(* twice for a queued recording before either call got past its lookup.    *)
(***************************************************************************)
InitRace ==
  /\ recordings = (1 :> [state |-> "queued", resultId |-> NULL])
  /\ recordingResults = <<>>
  /\ nextRecordingId = 2
  /\ nextResultId = 1
  /\ \E url \in Urls :
       inflight = SetToBag({Dispatch(NewTask(1), url)}) (+) SetToBag({Dispatch(NewTask(1), url)})
  /\ reply = NoReply
  /\ ViewInit(NoFeedback, 0)

NextRace ==
  \/ \E tk \in InFlight : DispatchLookup(tk)
  \/ \E tk \in InFlight : DispatchStart(tk)
  \/ \E tk \in InFlight : DispatchDownload(tk)
  \/ \E tk \in InFlight : DispatchAnalyze(tk)
  \/ \E tk \in InFlight : DispatchInsert(tk)
  \/ \E tk \in InFlight : DispatchComplete(tk)
  \/ \E tk \in InFlight : DispatchFail(tk)
  \/ Deliver

SpecRace == InitRace /\ [][NextRace]_vars

\* the two calls when every call they await returns: the download, the
\* analysis request and the calls of the persistence layer
SpecRaceLive == SpecRace /\ WF_vars(NextRace)

(***************************************************************************)
(* The feedback view of a recording: RecordingDetailsClient and, inside    *)
(* it, the Timeline.  The page hands it the decoded analysis result and    *)
(* the duration; the view is mounted, and remounted, and its filters are   *)
(* switched by the user.                                                   *)
(***************************************************************************)
\* the forms of insight.score_reference
Text(parts) == [type |-> "string", parts |-> parts, entries |-> <<>>]
Object(entries) == [type |-> "object", parts |-> <<>>, entries |-> entries]
Absent == [type |-> "undefined", parts |-> <<>>, entries |-> <<>>]

\* the temporal_feedback blocks the view is given
Blocks ==
  { [timestamp |-> <<"0", ":", "0", "0", "-", "0", ":", "0", "3">>,
     insights |-> << [observation |-> "steady pulse",
                      score_reference |-> Object(<< <<"timing_stable_unstable", Double["0.9"]>>,
                                                    <<"pedal_clean_blurred", Double["0.7"]>> >>)] >>],
    [timestamp |-> <<"0", ":", "0", "3", "-", "0", ":", "0", "6">>,
     insights |-> << [observation |-> "dark tone",
                      score_reference |-> Object(<< <<"Tonal Brightness", Double["0.7"]>> >>)] >>],
    [timestamp |-> <<"0", ":", "0", "4", "-", "0", ":", "0", "7">>,
     insights |-> << [observation |-> "shaped dynamics",
                      score_reference |-> Object(<< <<"dynamic_sophisticated_mellow_raw_crude", Double["0.8"]>> >>)],
                     [observation |-> "lively",
                      score_reference |-> Object(<< <<"Emotional Energy", Double["0.9"]>> >>)] >>],
    [timestamp |-> <<"0", ":", "3", "1", "-", "0", ":", "3", "4">>,
     insights |-> << [observation |-> "clean pedal",
                      score_reference |-> Text(<<"pedal_clean_blurred", " 1.0">>)],
                     [observation |-> "no reference",
                      score_reference |-> Absent] >>],
    [timestamp |-> <<"1", ":", "0", "1", "-", "1", ":", "0", "4">>,
     insights |-> << [observation |-> "empty reference",
                      score_reference |-> Object(<<>>)],
                     [observation |-> "unread reference",
                      score_reference |-> Text(<<"Pedal Clarity", " high">>)] >>] }

\* the longest temporal_feedback the view is given
MaxBlocks == 2

AnalysisResults ==
  {NoFeedback} \cup
  {[present |-> TRUE, temporal_feedback |-> tf] :
     tf \in UNION {[1..n -> Blocks] : n \in 0..MaxBlocks}}

\* recording.duration, in seconds
Durations == {30, 60}

Categories == DOMAIN FEEDBACK_CATEGORIES

\* feedbackMarkers with an idCounter that outlives the evaluation: it goes
\* on from the number of items made before
FeedbackMarkersCounting(result) ==
  IF ~result.present THEN <<>>
  ELSE ItemsFrom(result.temporal_feedback, 1, Len(feedbackMarkers) + 1)

\* feedbackMarkers (lines 102-156): idCounter starts at 1 in every evaluation
FeedbackMarkers(result) ==
  IF ~result.present THEN <<>>
  ELSE ItemsFrom(result.temporal_feedback, 1, 1)

\* a render with the items and the filters given: filteredMarkers go to the
\* Timeline, which makes processedMarkers of them
Render(items, filters) ==
  /\ feedbackMarkers' = items
  /\ activeFilters' = filters
  /\ markers' = FilteredMarkers(items, filters)
  /\ processedMarkers' = ProcessedMarkers(duration, markers')
  /\ firstRender' =
       IF firstRender.renders = 0
         THEN [renders |-> 1, items |-> items, markers |-> processedMarkers']
         ELSE [firstRender EXCEPT !.renders = 2]
  /\ UNCHANGED <<analysisResult, duration>>
  /\ UNCHANGED <<db, inflight, reply>>

\* the view is mounted: useState([]) and the first evaluation of the memos
Mount == Render(FeedbackMarkers(analysisResult), <<>>)

\* handleFilterChange(category) (lines 180-186): the memo of feedbackMarkers
\* is kept, since analysisResult is the same
HandleFilterChange(category) ==
  /\ firstRender.renders > 0
  /\ Render(feedbackMarkers,
            IF \E f \in 1..Len(activeFilters) : activeFilters[f] = category
              THEN SelectSeq(activeFilters, LAMBDA f : f # category)
              ELSE Append(activeFilters, category))

\* handleClearFilters (lines 188-190)
HandleClearFilters ==
  /\ firstRender.renders > 0
  /\ Render(feedbackMarkers, <<>>)

InitView ==
  /\ PipelineInit
  /\ \E ar \in AnalysisResults, d \in Durations : ViewInit(ar, d)

NextView ==
  \/ Mount
  \/ \E category \in Categories : HandleFilterChange(category)
  \/ HandleClearFilters

SpecView == InitView /\ [][NextView]_vars

(***************************************************************************)
(* Properties.                                                             *)
(***************************************************************************)
\* the invocation tk takes this step
Acting(tk) == tk \in InFlight /\ CopiesIn(tk, inflight') < CopiesIn(tk, inflight)
\* an invocation in position tk comes into being in this step
Entered(tk) == CopiesIn(tk, inflight') > CopiesIn(tk, inflight)

\* equality of two JSON values, member by member
RECURSIVE JsonEq(_, _)
JsonEq(a, b) ==
  IF a.t # b.t THEN FALSE
  ELSE IF a.t = "arr" THEN
    /\ Len(a.v) = Len(b.v)
    /\ \A i \in 1..Len(a.v) : JsonEq(a.v[i], b.v[i])
  ELSE IF a.t = "obj" THEN
    /\ Len(a.v) = Len(b.v)
    /\ \A i \in 1..Len(a.v) : a.v[i][1] = b.v[i][1] /\ JsonEq(a.v[i][2], b.v[i][2])
  ELSE a.v = b.v

\* the 2xx bodies that are JSON
JsonBodies == {body \in SuccessBodies : JSONParse(body) # SyntaxError}

\* C1: the state of a recording changes only from queued to processing, from
\* processing to processed, or from any state to queued; in particular never
\* from processed to processing or from queued to processed.
C1_LifecycleTransitionsOnly ==
  [][\A id \in DOMAIN recordings \cap DOMAIN recordings' :
       LET before == recordings[id].state
           after == recordings'[id].state IN
       before # after =>
         \/ before = "queued" /\ after = "processing"
         \/ before = "processing" /\ after = "processed"
         \/ after = "queued"]_vars

\* C2: a retry of a recording whose state is processed can only return
\* AlreadyProcessed: it does not go on to its write (no retry passes its
\* checks), and the step that returns leaves both tables and the set of
\* running dispatches as they were.
C2_RetryOfProcessedWritesNothing ==
  [][\A id \in DOMAIN recordings :
       recordings[id].state = "processed" =>
         /\ ~Entered(RetryFrame(id))
         /\ (reply'.op = "retry" /\ reply'.recordingId = id) =>
              /\ reply'.ret = Failure(AlreadyProcessed)
              /\ UNCHANGED db
              /\ inflight' = inflight]_vars

\* a retry has just returned AlreadyProcessed for a recording that a dispatch
\* processed
C2_Witness ==
  /\ reply.op = "retry"
  /\ reply.ret = Failure(AlreadyProcessed)
  /\ Exists(reply.recordingId)
  /\ recordings[reply.recordingId].state = "processed"
  /\ HasJoinedResult(reply.recordingId)

\* C3: in every reachable state every recording has a resultId if and only
\* if its state is processed.
C3_ResultIdIffProcessed ==
  \A id \in DOMAIN recordings :
    (recordings[id].resultId # NULL) <=> (recordings[id].state = "processed")

\* C4: a dispatch ends by returning a value to its caller, never by an
\* exception, also when calls of the persistence layer fail.
C4_NoExceptionLeavesDispatch ==
  reply.op = "dispatch" => (~reply.thrown /\ reply.ret.set)

\* C5: a dispatch that the analysis service answered with a non-2xx status
\* returns a failure whose error carries that status and that body text,
\* leaves the recording (if it still exists) queued, and has inserted no
\* result row; until it returns it is in its catch block with no row inserted.
C5_ServiceFailureEndsQueued ==
  /\ (reply.op = "dispatch" /\ reply.analysisResponse.status # 0
        /\ ~Ok(reply.analysisResponse)) =>
       /\ reply.ret.set /\ ~reply.ret.success
       /\ reply.ret.error.status = reply.analysisResponse.status
       /\ reply.ret.error.text = reply.analysisResponse.text
       /\ reply.newResultId = NULL
       /\ Exists(reply.recordingId) => recordings[reply.recordingId].state = "queued"
  /\ \A tk \in InFlight :
       (tk.analysisResponse.status # 0 /\ ~Ok(tk.analysisResponse)) =>
         tk.pc = "d_fail" /\ tk.newResultId = NULL

\* a dispatch has just returned the failure of a 503 answer and the recording
\* is queued
C5_Witness ==
  /\ reply.op = "dispatch"
  /\ reply.analysisResponse.status = 503
  /\ reply.ret.error = AnalysisServiceError(503, "overloaded")
  /\ Exists(reply.recordingId)
  /\ recordings[reply.recordingId].state = "queued"

\* C6: a dispatch that downloaded the audio and got a 2xx answer with a JSON
\* body has inserted a row and, unless that row was deleted before the
\* completing write, returns success with the row's id, and the recording (if
\* it still exists) is processed with that id as resultId; the insert step
\* adds exactly that one row, no other step of a dispatch changes the result
\* rows, and only the completing step sets resultId, together with the state.
C6_SuccessInsertsOneRowAndCompletes ==
  /\ [](( /\ reply.op = "dispatch"
          /\ reply.audioRequested
          /\ Ok(reply.analysisResponse)
          /\ reply.analysisResponse.body \in JsonBodies ) =>
        /\ reply.newResultId # NULL
        /\ reply.newResultId \in DOMAIN recordingResults =>
             /\ reply.ret = Success(reply.newResultId)
             /\ Exists(reply.recordingId) =>
                  recordings[reply.recordingId] =
                    [state |-> "processed", resultId |-> reply.newResultId])
  /\ [][\A tk \in InFlight :
          Acting(tk) =>
            /\ IF tk.pc = "d_insert"
                 THEN /\ nextResultId \notin DOMAIN recordingResults
                      /\ DOMAIN recordingResults' = DOMAIN recordingResults \cup {nextResultId}
                      /\ \A r \in DOMAIN recordingResults :
                           recordingResults'[r] = recordingResults[r]
                      /\ Entered([tk EXCEPT !.pc = "d_complete", !.newResultId = nextResultId])
                 ELSE recordingResults' = recordingResults
            /\ ( /\ tk.pc = "d_complete" /\ Exists(tk.recordingId)
                  /\ tk.newResultId \in DOMAIN recordingResults ) =>
                 /\ recordings[tk.recordingId].resultId # tk.newResultId
                 /\ recordings'[tk.recordingId] =
                      [state |-> "processed", resultId |-> tk.newResultId]
            /\ (tk.pc # "d_complete" /\ Exists(tk.recordingId)) =>
                 /\ recordings'[tk.recordingId].resultId = recordings[tk.recordingId].resultId
                 /\ recordings'[tk.recordingId].state # "processed"
                      \/ recordings[tk.recordingId].state = "processed"]_vars

\* a dispatch has just returned success and the recording refers to the row
\* the dispatch inserted
C6_Witness ==
  /\ reply.op = "dispatch"
  /\ reply.ret.success
  /\ Exists(reply.recordingId)
  /\ recordings[reply.recordingId].resultId = reply.newResultId
  /\ recordings[reply.recordingId].state = "processed"
  /\ reply.newResultId \in DOMAIN recordingResults

C8_DispatchOfMissingRecording ==
  [][\A tk \in InFlight :
       (Acting(tk) /\ tk.pc \in {"d_lookup", "r_dispatch"} /\ ~Exists(tk.recordingId)) =>
         /\ reply'.op = "dispatch"
         /\ reply'.recordingId = tk.recordingId
         /\ reply'.ret = Failure(NotFound)
         /\ ~reply'.audioRequested
         /\ ~reply'.analysisRequested
         /\ reply'.newResultId = NULL
         /\ UNCHANGED db]_vars

\* a dispatch has just returned NotFound for an id without a recording
C8_Witness ==
  /\ reply.op = "dispatch"
  /\ reply.ret = Failure(NotFound)
  /\ ~Exists(reply.recordingId)

\* C9: the step in which a status is returned changes neither table and no
\* dispatch; the status is not-found exactly for an id without a recording,
\* and otherwise carries the recording's state, with hasResult true exactly
\* when the recording's resultId is the id of an existing result row.
C9_StatusIsReadOnlyProjection ==
  [][reply'.op = "status" =>
       LET id == reply'.recordingId
           st == reply'.status IN
       /\ UNCHANGED db
       /\ inflight' = inflight
       /\ st.found <=> Exists(id)
       /\ ~st.found => reply'.ret = Failure(NotFound)
       /\ st.found =>
            /\ st.state = recordings[id].state
            /\ st.hasResult <=>
                 ( /\ recordings[id].resultId # NULL
                   /\ recordings[id].resultId \in DOMAIN recordingResults )]_vars

\* a status has just been returned for a recording that is processed and
\* has no result
C9_Witness ==
  /\ reply.op = "status"
  /\ reply.status.found
  /\ reply.status.state = "processed"
  /\ ~reply.status.hasResult
  /\ Exists(reply.recordingId)
  /\ recordings[reply.recordingId].resultId = NULL

\* C10: a retry passes its checks only for an existing recording that is
\* not processed, and that step writes nothing; the retry's next step writes
\* state queued to the recording (if it still exists) and nothing else, and
\* goes on as exactly one dispatch of that id without an audio URL, whose
\* return value is the retry's; a retry of an id without a recording returns
\* NotFound, and that step writes nothing.
C10_RetryResetsThenDispatchesOnce ==
  [][/\ \A id \in RequestIds :
          Entered(RetryFrame(id)) =>
            /\ Exists(id) /\ recordings[id].state # "processed"
            /\ UNCHANGED db
            /\ Running' = Running + 1
     /\ \A tk \in InFlight :
          (Acting(tk) /\ tk.pc = "r_reset") =>
            /\ Exists(tk.recordingId) =>
                 recordings' = [recordings EXCEPT ![tk.recordingId].state = "queued"]
            /\ ~Exists(tk.recordingId) => recordings' = recordings
            /\ UNCHANGED <<recordingResults, nextRecordingId, nextResultId>>
            /\ Entered([NewTask(tk.recordingId) EXCEPT !.pc = "r_dispatch"])
            /\ Running' = Running
            /\ reply' = NoReply
     /\ (reply'.op = "retry" /\ ~Exists(reply'.recordingId)) =>
          /\ reply'.ret = Failure(NotFound)
          /\ UNCHANGED db
          /\ inflight' = inflight
     /\ (reply'.op = "retry" /\ reply'.ret = Failure(NotFound)) =>
          ~Exists(reply'.recordingId)]_vars

\* a retry has written queued to its recording and is at the first await of
\* its one dispatch
C10_Witness ==
  \E tk \in InFlight :
    /\ tk.pc = "r_dispatch"
    /\ Running = 1
    /\ Exists(tk.recordingId)
    /\ recordings[tk.recordingId].state = "queued"

Collects(p, m) ==
  \E i \in 1..Len(processedMarkers) :
     /\ processedMarkers[i].timestamp = p
     /\ \E j \in 1..Len(processedMarkers[i].feedbackItems) :
          processedMarkers[i].feedbackItems[j] = m

\* C13: an item with timestamp t is collected by the bucket at position p
\* exactly when |t - p| is less than half the spacing of the buckets.
C13_CollectedWithinHalfSpacing ==
  \A k \in 1..MarkerCount, i \in 1..Len(markers) :
     LET p == markerPositions[k]
         t == markers[i].timestamp
     IN  t # NotANumber =>
           (Collects(p, markers[i]) <=>
              2 * (IF t < p THEN p - t ELSE t - p) < MarkerSpacing)

\* C14: with no category selected the Timeline is given the feedback items
\* unchanged; with categories selected it is given exactly the items whose
\* dimension is in the set of at least one selected category, in the order
\* the items have.
C14_CategoryFilter ==
  LET Selected(item) ==
        \E f \in 1..Len(activeFilters) :
           item.dimension \in FEEDBACK_CATEGORIES[activeFilters[f]]
      Given(item) == \E j \in 1..Len(markers) : markers[j] = item
  IN  /\ activeFilters = <<>> => markers = feedbackMarkers
      /\ activeFilters # <<>> =>
           /\ \A i \in 1..Len(feedbackMarkers) :
                Given(feedbackMarkers[i]) <=> Selected(feedbackMarkers[i])
           /\ \A j \in 1..Len(markers) :
                \E i \in 1..Len(feedbackMarkers) : feedbackMarkers[i] = markers[j]
           /\ \A j, k \in 1..Len(markers) :
                j < k =>
                  \E i, l \in 1..Len(feedbackMarkers) :
                     /\ i < l
                     /\ feedbackMarkers[i] = markers[j]
                     /\ feedbackMarkers[l] = markers[k]

\* two categories are selected; the Timeline is given some of the items,
\* more than one, and not all of them
C14_Witness ==
  /\ Len(activeFilters) = 2
  /\ Len(markers) >= 2
  /\ Len(markers) < Len(feedbackMarkers)
  /\ \E j \in 1..Len(markers) :
        markers[j].dimension \notin FEEDBACK_CATEGORIES[activeFilters[1]]

C16_RowsPerDispatchAndDeletion ==
  /\ [](reply.op = "dispatch" /\ reply.ret.set /\ ~reply.thrown =>
          (reply.ret.success <=> reply.newResultId # NULL))
  /\ [][\A r \in DOMAIN recordingResults \ DOMAIN recordingResults' :
          \E id \in DOMAIN recordings \ DOMAIN recordings' :
             recordings[id].resultId = r]_vars

\* C17: the start write of a dispatch succeeds only when the recording is
\* queued; on a recording in another state it leaves the state as it is and
\* the dispatch does not go on to the download.
C17_StartOnlyFromQueued ==
  [][\A tk \in InFlight :
       /\ Acting(tk)
       /\ tk.pc = "d_start"
       /\ Exists(tk.recordingId)
       /\ recordings[tk.recordingId].state # "queued"
       => /\ recordings' = recordings
          /\ ~\E tk2 \in BagToSet(inflight') :
                Entered(tk2) /\ tk2.pc = "d_download"]_vars

\* C18: a dispatch whose download was answered with a non-2xx status returns
\* a failure whose error carries the answer's status text, leaves the
\* recording (if it still exists) queued, and has not called the analysis
\* service; until it returns it is in its catch block with that error.
C18_DownloadFailureEndsQueued ==
  /\ (reply.op = "dispatch" /\ reply.audioResponse.status # 0
        /\ ~Ok(reply.audioResponse)) =>
       /\ reply.ret.set /\ ~reply.ret.success
       /\ reply.ret.error = DownloadError(reply.audioResponse.text)
       /\ ~reply.analysisRequested
       /\ reply.analysisResponse = NoResponse
       /\ reply.newResultId = NULL
       /\ Exists(reply.recordingId) => recordings[reply.recordingId].state = "queued"
  /\ \A tk \in InFlight :
       (tk.audioResponse.status # 0 /\ ~Ok(tk.audioResponse)) =>
         /\ tk.pc = "d_fail"
         /\ tk.error = DownloadError(tk.audioResponse.text)
         /\ ~tk.analysisRequested

\* a dispatch has just returned the failure of a download answered with
\* "Not Found" and the recording is queued
C18_Witness ==
  /\ reply.op = "dispatch"
  /\ reply.audioResponse = AudioMissing("Not Found")
  /\ reply.ret = Failure(DownloadError("Not Found"))
  /\ ~reply.analysisRequested
  /\ Exists(reply.recordingId)
  /\ recordings[reply.recordingId].state = "queued"

\* the dispatches in flight that have done the start write
Started == {tk \in InFlight : tk.pc \in {"d_download", "d_post", "d_insert", "d_complete"}}

\* C19: dispatches of one recording do not exclude each other: the start
\* write of a dispatch is taken, and the dispatch goes on to the download,
\* whatever the recording's state and whatever other dispatch of it is under
\* way; and the dispatches that have inserted a row have each their own.
C19_DispatchesNotExcluded ==
  /\ [](\A tk \in InFlight :
          tk.newResultId # NULL =>
            /\ CopiesIn(tk, inflight) = 1
            /\ \A tk2 \in InFlight \ {tk} : tk2.newResultId # tk.newResultId)
  /\ [][\A tk \in InFlight :
          Acting(tk) /\ tk.pc = "d_start" /\ Exists(tk.recordingId) =>
            /\ recordings'[tk.recordingId].state = "processing"
            /\ \E tk2 \in BagToSet(inflight') : Entered(tk2) /\ tk2.pc = "d_download"]_vars

\* two dispatches of recording 1 are in flight past the start write, both
\* have called the analysis service, and each has inserted a row of its own
C19_Witness ==
  \E tk, tk2 \in Started :
     /\ tk.recordingId = tk2.recordingId
     /\ tk.analysisRequested /\ tk2.analysisRequested
     /\ tk.newResultId # NULL /\ tk2.newResultId # NULL
     /\ tk.newResultId # tk2.newResultId
     /\ {tk.newResultId, tk2.newResultId} \subseteq DOMAIN recordingResults
     /\ recordings[tk.recordingId].state = "processing"

\* C20: a dispatch has no timeout: it leaves its download only with what
\* the storage answered or with a rejected fetch, and its analysis request
\* only with what the service answered or with a rejected fetch, and while
\* it waits it writes nothing, so the state changes only by the start write,
\* the completing write or the catch block of some dispatch; and when every
\* awaited call returns, the dispatches terminate and the recording is left
\* queued or processed, not processing.
C20_NoTimeoutAndTermination ==
  /\ [][/\ \A tk \in InFlight :
             Acting(tk) /\ tk.pc = "d_download" =>
               /\ recordings' = recordings
               /\ \E tk2 \in BagToSet(inflight') :
                    /\ Entered(tk2) /\ tk2.audioRequested
                    /\ \/ tk2.pc = "d_post" /\ Ok(tk2.audioResponse)
                       \/ tk2.pc = "d_fail" /\ tk2.error = DownloadError(tk2.audioResponse.text)
                       \/ tk2.pc = "d_fail" /\ tk2.error = FetchFailed
        /\ \A tk \in InFlight :
             Acting(tk) /\ tk.pc = "d_post" =>
               /\ recordings' = recordings
               /\ \E tk2 \in BagToSet(inflight') :
                    /\ Entered(tk2) /\ tk2.analysisRequested
                    /\ \/ tk2.pc = "d_insert" /\ Ok(tk2.analysisResponse)
                       \/ tk2.pc = "d_fail" /\ tk2.error = JSONSyntaxError
                       \/ tk2.pc = "d_fail"
                            /\ tk2.error = AnalysisServiceError(tk2.analysisResponse.status,
                                                                tk2.analysisResponse.text)
                       \/ tk2.pc = "d_fail" /\ tk2.error = FetchFailed
        /\ recordings' # recordings =>
             \E tk \in InFlight :
                Acting(tk) /\ tk.pc \in {"d_start", "d_complete", "d_fail"}]_vars
  /\ [](reply.op = "dispatch" /\ reply.ret.set /\ Exists(reply.recordingId) =>
          recordings[reply.recordingId].state \in {"queued", "processed"})
  /\ <>[](/\ inflight = EmptyBag
          /\ \A id \in DOMAIN recordings : recordings[id].state \in {"queued", "processed"})

\* one dispatch has returned and the other still waits for the analysis
\* service, with the recording in processing by its start write
C20_Witness ==
  /\ Running = 1
  /\ reply.op = "dispatch"
  /\ recordings[reply.recordingId].state = "queued"
  /\ \E tk \in InFlight : tk.pc = "d_post"

\* C21: the grid of the Timeline follows its inputs: for the duration D it
\* is given and the spacing S of its buckets there are D / S positions, and
\* position i is i * S.
C21_GridFollowsDuration ==
  firstRender.renders > 0 =>
    /\ Len(markerPositions) = duration \div MarkerSpacing
    /\ \A i \in 1..Len(markerPositions) : markerPositions[i] = i * MarkerSpacing

\* the sum of a sequence of integers
RECURSIVE SumOf(_)
SumOf(ns) == IF ns = <<>> THEN 0 ELSE Head(ns) + SumOf(Tail(ns))

\* avg is the mean of the scores, to the rounding of doubles: n * avg and
\* the exact sum of the n scores differ by at most 5 * n units of 2^-53
\* (each sum rounds by at most 4 units, the quotient by half a unit); with a
\* score that is no number the mean is no number
MeanOf(avg, scores) ==
  LET n == Len(scores) IN
  IF \E i \in 1..n : scores[i] = NaN THEN avg = NaN
  ELSE
    /\ avg # NaN
    /\ LET dhi == SumOf([i \in 1..n |-> scores[i][1]]) - n * avg[1]
           dlo == SumOf([i \in 1..n |-> scores[i][2]]) - n * avg[2]
       IN  /\ dhi \in -8..8
           /\ dhi * Limb + dlo \in (-5 * n)..(5 * n)

\* C22: a position of the grid has a marker exactly when at least one item
\* the Timeline is given is collected at it; the marker holds exactly the
\* collected items, in the order given; its avgScore is the arithmetic mean
\* of their scores (as doubles are summed and divided); and the markers
\* come in increasing order of position.
C22_MarkersOfBuckets ==
  /\ \A k \in 1..MarkerCount :
       LET p == markerPositions[k]
           collected == SelectSeq(markers, LAMBDA m : Near(m, p))
           at == {i \in 1..Len(processedMarkers) : processedMarkers[i].timestamp = p}
       IN  /\ Cardinality(at) = (IF collected = <<>> THEN 0 ELSE 1)
           /\ \A i \in at :
                /\ processedMarkers[i].feedbackItems = collected
                /\ MeanOf(processedMarkers[i].avgScore,
                          [j \in 1..Len(collected) |-> collected[j].score])
  /\ \A i \in 1..Len(processedMarkers) :
       /\ \E k \in 1..MarkerCount : processedMarkers[i].timestamp = markerPositions[k]
       /\ i > 1 => processedMarkers[i - 1].timestamp < processedMarkers[i].timestamp

\* several markers, one of them of three items, and a position without any
C22_Witness ==
  /\ Len(processedMarkers) >= 2
  /\ Len(processedMarkers) < MarkerCount
  /\ \E i \in 1..Len(processedMarkers) :
        /\ Len(processedMarkers[i].feedbackItems) = 3
        /\ processedMarkers[i].avgScore # NaN
        /\ processedMarkers[i].avgScore # Double["0.8"]

\* C23: once a dispatch has written state processed and a resultId, the
\* recording keeps both as long as no dispatch, retry or state update is
\* invoked afterwards: no step of a dispatch that was already in flight
\* changes them.  (Where no invocation is ever started after the first
\* state, every step is one of a dispatch already in flight.)
C23_ProcessedIsKept ==
  [][\A id \in DOMAIN recordings :
       recordings[id].state = "processed" /\ recordings[id].resultId # NULL =>
         id \in DOMAIN recordings' /\ recordings'[id] = recordings[id]]_vars

\* C24: a failing dispatch changes only the state of its recording: a
\* dispatch that returns failure has inserted no recording_results row, and
\* a step of a dispatch other than its insert and its completing write
\* leaves the rows of recording_results, the set of recordings and every
\* resultId as they are.
C24_FailureChangesStateOnly ==
  /\ [](reply.op = "dispatch" /\ reply.ret.set /\ ~reply.ret.success =>
          reply.newResultId = NULL)
  /\ [][\A tk \in InFlight :
          Acting(tk) /\ tk.pc \in {"d_lookup", "r_dispatch", "d_start", "d_download",
                                   "d_post", "d_fail"} =>
            /\ recordingResults' = recordingResults
            /\ DOMAIN recordings' = DOMAIN recordings
            /\ \A id \in DOMAIN recordings :
                 recordings'[id].resultId = recordings[id].resultId]_vars

\* C25: every item the Timeline is given is among the items of at most one
\* of its markers.
C25_ItemInAtMostOneMarker ==
  \A i \in 1..Len(markers) :
     Cardinality({k \in 1..MarkerCount : Collects(markerPositions[k], markers[i])}) <= 1

\* C26: every item the Timeline is given whose timestamp lies between 0 and
\* the duration, both included, is among the items of at least one marker.
C26_NoItemDropped ==
  \A i \in 1..Len(markers) :
     (markers[i].timestamp # NotANumber
        /\ markers[i].timestamp >= 0 /\ markers[i].timestamp <= duration) =>
       \E k \in 1..MarkerCount : Collects(markerPositions[k], markers[i])

(***************************************************************************)
(* A retry after a dispatch that was given an audio location.              *)
(***************************************************************************)
\* recording 1, queued, and one call of processPianoAnalysis(1, audioUrl)
\* with a supplied audio location (createRecordingAction, POST)
InitRetry ==
  /\ recordings = (1 :> [state |-> "queued", resultId |-> NULL])
  /\ recordingResults = <<>>
  /\ nextRecordingId = 2
  /\ nextResultId = 1
  /\ \E url \in AudioUrls : inflight = SetToBag({Dispatch(NewTask(1), url)})
  /\ reply = NoReply
  /\ ViewInit(NoFeedback, 0)

\* the dispatch runs; the status is read and the state is set by hand; the
\* only dispatches started afterwards are those of retries
NextRetry ==
  \/ \E sess \in Sessions, id \in RequestIds : GET(sess, id)
  \/ \E sess \in Sessions, id \in RequestIds, st \in States, wr \in BOOLEAN :
       UpdateRecordingStateAction(sess, id, st, wr)
  \/ \E sess \in Sessions, id \in RequestIds : PUT(sess, id)
  \/ \E tk \in InFlight : RetryReset(tk)
  \/ \E tk \in InFlight : DispatchLookup(tk)
  \/ \E tk \in InFlight : DispatchStart(tk)
  \/ \E tk \in InFlight : DispatchDownload(tk)
  \/ \E tk \in InFlight : DispatchAnalyze(tk)
  \/ \E tk \in InFlight : DispatchInsert(tk)
  \/ \E tk \in InFlight : DispatchComplete(tk)
  \/ \E tk \in InFlight : DispatchFail(tk)
  \/ Deliver

SpecRetry == InitRetry /\ [][NextRetry]_vars

\* C27: a retry analyses the same audio as the original dispatch: where the
\* recording was dispatched with a supplied audio location and every later
\* dispatch is one started by a retry, every dispatch about to download
\* downloads from the supplied location.
C27_RetryDownloadsSameAudio ==
  \A tk \in InFlight : tk.pc = "d_download" => tk.downloadUrl \in AudioUrls

\* C28: through the analyze routes a recording's state is changed and a
\* dispatch is started only for an authenticated member of the owning
\* organization: no step that a POST or a PUT of an unauthenticated user or
\* of a non-member can take starts an invocation or changes a stored row.
C28_AnalyzeRoutesNeedMembership ==
  [][\A sess \in {s \in Sessions : ~IsMember(s)}, id \in RequestIds :
       (PUT(sess, id) \/ \E url \in Urls : POST(sess, id, url)) =>
         UNCHANGED <<db, inflight>>]_vars

C30_AnyKeySelects ==
  \A i \in 1..Len(feedbackMarkers), f \in 1..Len(activeFilters) :
    LET item == feedbackMarkers[i]
        keys == {item.score_reference[e][1] : e \in 1..Len(item.score_reference)}
    IN  (\E key \in keys :
           formatDimensionKey(key) \in FEEDBACK_CATEGORIES[activeFilters[f]])
          => \E j \in 1..Len(markers) : markers[j] = item

====
